---- MODULE Spec2Model ----
(***************************************************************************)
(* Model of answers/exercise-1.py: a straight-line script that loads a     *)
(* date-indexed price series, reports the share of missing prices overall  *)
(* and per weekday, forward-fills the series and plots it with a centered  *)
(* rolling mean of 20 observations.                                        *)
(*                                                                         *)
(* A frame is a sequence of rows in file order; a row is a record whose    *)
(* fields are the index (Date, days since 1970-01-01) and the columns.     *)
(* A cell is <<>> when missing (NaN) and <<p>> when it holds the value p.  *)
(* A computed float is kept exact: <<>> for NaN, <<num, den>> in lowest    *)
(* terms otherwise.                                                        *)
(***************************************************************************)
EXTENDS Integers, Sequences, FiniteSets, TLC

VARIABLES pc, stocks, head, nullRate, grouped, byWeekday, filled, plotted, title

vars == <<pc, stocks, head, nullRate, grouped, byWeekday, filled, plotted, title>>

\* ------------------------------------------------------------------ bounds
MaxRows == 3        \* rows of a short series
MaxPrice == 2       \* prices are 1..MaxPrice
MaxDay == 5         \* dates are day 3 (Sun 1970-01-04) .. MaxDay
MaxExtra == 2       \* a long series has up to Window + MaxExtra rows
MaxRun == 2         \* longest run of missing prices in a long series

\* ------------------------------------------------------- program constants
Window == 20
HeadRows == 5

NaN == <<>>
Val(p) == <<p>>

Days == 3..MaxDay
Prices == 1..MaxPrice
Cells == {NaN} \cup {Val(p) : p \in Prices}

\* ---------------------------------------------------------------- helpers
Min(a, b) == IF a < b THEN a ELSE b
Max(a, b) == IF a > b THEN a ELSE b

RECURSIVE GCD(_, _)
GCD(a, b) == IF b = 0 THEN a ELSE GCD(b, a % b)

\* a / b as the script's true division: NaN for 0/0, else the exact quotient
Div(a, b) == IF b = 0 THEN NaN ELSE <<a \div GCD(a, b), b \div GCD(a, b)>>

Column(df, name) == [i \in 1..Len(df) |-> df[i][name]]

\* variant: notnull() in place of isnull()
IsnullInverted(c) == c # NaN

\* isnull() of one cell
Isnull(c) == c = NaN

\* Series.sum() of a boolean column produced by isnull()
RECURSIVE IsnullSum(_)
IsnullSum(col) ==
    IF col = <<>> THEN 0
    ELSE (IF Isnull(Head(col)) THEN 1 ELSE 0) + IsnullSum(Tail(col))

\* Series.mean() of the boolean column produced by isnull()
IsnullMean(col) == Div(IsnullSum(col), Len(col))

\* variant: a weekday numbered from Sunday = 0
WeekdaySundayFirst(d) == (d + 4) % 7

\* DatetimeIndex.weekday: Monday = 0 .. Sunday = 6; day 0 is a Thursday
Weekday(d) == (d + 3) % 7

\* DataFrame.assign(Weekday = index.weekday): a new frame, one more column
AssignWeekday(df) ==
    [i \in 1..Len(df) |->
        [Date |-> df[i].Date, Price |-> df[i].Price, Weekday |-> Weekday(df[i].Date)]]

\* variant: only the working days Monday .. Friday form groups
GroupKeysWorkdays(df) == {df[i].Weekday : i \in 1..Len(df)} \cap (0..4)

\* groupby('Weekday'): one group per key that occurs, rows kept in order
GroupKeys(df) == {df[i].Weekday : i \in 1..Len(df)}

IsKey(r, k) == r.Weekday = k
GroupBy(df) ==
    [k \in GroupKeys(df) |-> SelectSeq(df, LAMBDA r : IsKey(r, k))]

\* .agg(lambda x: x.isnull().sum()/len(x)) on the one remaining column
AggNullShare(col) == Div(IsnullSum(col), Len(col))

Agg(groups) ==
    [k \in DOMAIN groups |-> [Price |-> AggNullShare(Column(groups[k], "Price"))]]

\* fillna(method='ffill') on one column: carry the last valid value forward
RECURSIVE Pad(_, _, _)
Pad(col, i, last) ==
    IF i > Len(col) THEN <<>>
    ELSE LET v == IF col[i] = NaN THEN last ELSE col[i]
         IN  <<v>> \o Pad(col, i + 1, v)

\* variant: ffill with limit=1: at most one consecutive missing value is filled
RECURSIVE PadLimit(_, _, _, _)
PadLimit(col, i, last, used) ==
    IF i > Len(col) THEN <<>>
    ELSE IF col[i] # NaN THEN <<col[i]>> \o PadLimit(col, i + 1, col[i], 0)
    ELSE IF used < 1 THEN <<last>> \o PadLimit(col, i + 1, last, used + 1)
    ELSE <<NaN>> \o PadLimit(col, i + 1, last, used)

\* variant: bfill, carry the next valid value backward
RECURSIVE Backfill(_, _)
Backfill(col, i) ==
    IF i > Len(col) THEN <<>>
    ELSE LET rest == Backfill(col, i + 1)
             v == IF col[i] # NaN THEN col[i]
                  ELSE IF rest = <<>> THEN NaN ELSE rest[1]
         IN  <<v>> \o rest

\* variant: a pad that never advances the carried value past the first valid one
RECURSIVE PadFirst(_, _, _)
PadFirst(col, i, last) ==
    IF i > Len(col) THEN <<>>
    ELSE LET v == IF col[i] = NaN THEN last ELSE col[i]
         IN  <<v>> \o PadFirst(col, i + 1, IF last = NaN THEN v ELSE last)

FfillLimitOne(col) == PadLimit(col, 1, NaN, 0)
FfillBackward(col) == Backfill(col, 1)
FfillFirstValid(col) == PadFirst(col, 1, NaN)

\* the 'ffill' method of fillna on one column
Ffill(col) == Pad(col, 1, NaN)

\* DataFrame.fillna(method='ffill'): a new frame, same index, columns filled
Fillna(df) ==
    LET col == Ffill(Column(df, "Price"))
    IN  [i \in 1..Len(df) |-> [Date |-> df[i].Date, Price |-> col[i]]]

\* DataFrame.head(): the first five rows
HeadOf(df) == SubSeq(df, 1, Min(HeadRows, Len(df)))

\* number and sum of the valid cells of col at 0-based positions a .. b-1
RECURSIVE CountValid(_, _, _)
CountValid(col, a, b) ==
    IF a >= b THEN 0
    ELSE (IF col[a + 1] = NaN THEN 0 ELSE 1) + CountValid(col, a + 1, b)

RECURSIVE SumValid(_, _, _)
SumValid(col, a, b) ==
    IF a >= b THEN 0
    ELSE (IF col[a + 1] = NaN THEN 0 ELSE col[a + 1][1]) + SumValid(col, a + 1, b)

Clip(x, lo, hi) == Max(lo, Min(x, hi))

\* variant: the window centered half a window ahead
CenterOffsetHalf(w) == w \div 2

\* rolling(w, center=True): the window of 0-based position i is
\* [i + 1 + offset - w, i + 1 + offset), clipped to the series
CenterOffset(w) == (w - 1) \div 2

\* variant: min_periods=1, a mean over however many valid observations
MinPeriodsOne(w) == 1

\* rolling(w) without min_periods: a value needs w valid observations
MinPeriods(w) == w

WindowEnd(i, w, n) == Clip(i + 1 + CenterOffset(w), 0, n)
WindowStart(i, w, n) == Clip(i + 1 + CenterOffset(w) - w, 0, n)

\* .mean() of the rolling windows: the window slides, dropping the cells that
\* leave it and adding the ones that enter it; i, ps, pe are 0-based
RECURSIVE RollMean(_, _, _, _, _, _, _)
RollMean(col, w, i, ps, pe, nobs, sum) ==
    IF i >= Len(col) THEN <<>>
    ELSE LET s == WindowStart(i, w, Len(col))
             e == WindowEnd(i, w, Len(col))
             fresh == i = 0 \/ s >= pe
             nobs2 == IF fresh THEN CountValid(col, s, e)
                      ELSE nobs - CountValid(col, ps, s) + CountValid(col, pe, e)
             sum2 == IF fresh THEN SumValid(col, s, e)
                     ELSE sum - SumValid(col, ps, s) + SumValid(col, pe, e)
             out == IF nobs2 >= MinPeriods(w) /\ nobs2 > 0
                    THEN Div(sum2, nobs2) ELSE NaN
         IN  <<out>> \o RollMean(col, w, i + 1, s, e, nobs2, sum2)

RollingMeanCenter(col) == RollMean(col, Window, 0, 0, 0, 0, 0)

\* .assign(rolling_mean_center = ...): a new frame, one more column
AssignRolling(df) ==
    LET roll == RollingMeanCenter(Column(df, "Price"))
    IN  [i \in 1..Len(df) |->
            [Date |-> df[i].Date, Price |-> df[i].Price,
             rolling_mean_center |-> roll[i]]]

\* ------------------------------------------------------------ the script
Rows == [Date : Days, Price : Cells]

ShortSeries == UNION {[1..n -> Rows] : n \in 0..MaxRows}

\* a long series: consecutive days, a leading run of missing prices, a later
\* run of missing prices, and a price that steps from 1 to p at row step
LongPrice(i, lead, gap, step, p) ==
    IF i <= lead THEN NaN
    ELSE IF i > lead + 1 /\ i <= lead + 1 + gap THEN NaN
    ELSE IF i < step THEN Val(1) ELSE Val(p)

LongSeries ==
    {[i \in 1..n |-> [Date |-> 2 + i, Price |-> LongPrice(i, lead, gap, step, p)]] :
        <<n, lead, gap, step, p>> \in
            {x \in ((Window - 2)..(Window + MaxExtra)) \X (0..MaxRun) \X (0..MaxRun)
                    \X (1..(Window + MaxExtra + 1)) \X Prices : x[4] <= x[1] + 1}}

\* line 1: read_csv(...) has returned
Loaded(series) ==
    /\ pc = "head"
    /\ stocks \in series
    /\ head = <<>>
    /\ nullRate = <<>>
    /\ grouped = <<>>
    /\ byWeekday = <<>>
    /\ filled = <<>>
    /\ plotted = <<>>
    /\ title = ""

Init == Loaded(ShortSeries)

InitLong == Loaded(LongSeries)

\* line 2
DisplayHead ==
    /\ pc = "head"
    /\ head' = HeadOf(stocks)
    /\ pc' = "overall"
    /\ UNCHANGED <<stocks, nullRate, grouped, byWeekday, filled, plotted, title>>

\* line 6
PrintNullRate ==
    /\ pc = "overall"
    /\ nullRate' = [Price |-> IsnullMean(Column(stocks, "Price"))]
    /\ pc' = "weekday"
    /\ UNCHANGED <<stocks, head, grouped, byWeekday, filled, plotted, title>>

\* lines 10-16
DisplayByWeekday ==
    /\ pc = "weekday"
    /\ grouped' = GroupBy(AssignWeekday(stocks))
    /\ byWeekday' = Agg(grouped')
    /\ pc' = "ffill"
    /\ UNCHANGED <<stocks, head, nullRate, filled, plotted, title>>

\* variant: fillna(method='ffill', inplace=True), which fills stocks itself
DisplayFilledInplace ==
    /\ pc = "ffill"
    /\ filled' = Fillna(stocks)
    /\ stocks' = Fillna(stocks)
    /\ pc' = "plot"
    /\ UNCHANGED <<head, nullRate, grouped, byWeekday, plotted, title>>

\* lines 20-21
DisplayFilled ==
    /\ pc = "ffill"
    /\ filled' = Fillna(stocks)
    /\ pc' = "plot"
    /\ UNCHANGED <<stocks, head, nullRate, grouped, byWeekday, plotted, title>>

\* lines 24-31
Plot ==
    /\ pc = "plot"
    /\ plotted' = AssignRolling(Fillna(stocks))
    /\ pc' = "title"
    /\ UNCHANGED <<stocks, head, nullRate, grouped, byWeekday, filled, title>>

\* line 33
SetTitle ==
    /\ pc = "title"
    /\ title' = "Rolling mean of Stock Prices"
    /\ pc' = "done"
    /\ UNCHANGED <<stocks, head, nullRate, grouped, byWeekday, filled, plotted>>

Next ==
    \/ DisplayHead
    \/ PrintNullRate
    \/ DisplayByWeekday
    \/ DisplayFilled
    \/ Plot
    \/ SetTitle

Spec == Init /\ [][Next]_vars

SpecLong == InitLong /\ [][Next]_vars

\* ------------------------------------------------------------ properties
\* which outputs the script has produced so far
Reported == pc \notin {"head", "overall"}
Grouped == pc \notin {"head", "overall", "weekday"}
FilledShown == pc \in {"plot", "title", "done"}
Plotted == pc \in {"title", "done"}

MissingAt(df) == {i \in 1..Len(df) : df[i].Price = NaN}
PresentAt(df) == {i \in 1..Len(df) : df[i].Price # NaN}
PricesOf(df) == [i \in 1..Len(df) |-> df[i].Price]

RECURSIVE SetSum(_, _)
SetSum(f, S) ==
    IF S = {} THEN 0
    ELSE LET k == CHOOSE x \in S : TRUE IN f[k] + SetSum(f, S \ {k})

\* the ratio r is the number a / b
RateIs(r, a, b) == r # NaN /\ b > 0 /\ r[2] > 0 /\ r[1] * b = a * r[2]
InUnit(r) == r # NaN /\ 0 <= r[1] /\ r[1] <= r[2]

\* C1 as stated: for every series the reported overall rate of Price is
\* (missing rows) / (rows) and lies in [0, 1]
C1_RateEverySeries ==
    Reported =>
        /\ RateIs(nullRate.Price, Cardinality(MissingAt(stocks)), Len(stocks))
        /\ InUnit(nullRate.Price)

\* C1 amended: for every series with at least one row the reported overall
\* rate of Price is (missing rows) / (rows) and lies in [0, 1]; for a series
\* without rows the reported rate is NaN
C1_RateNonEmptySeries ==
    Reported =>
        IF Len(stocks) > 0
        THEN /\ RateIs(nullRate.Price, Cardinality(MissingAt(stocks)), Len(stocks))
             /\ InUnit(nullRate.Price)
        ELSE nullRate.Price = NaN

C1_Witness ==
    /\ Reported
    /\ Len(stocks) = 2
    /\ Cardinality(MissingAt(stocks)) = 1
    /\ nullRate.Price = <<1, 2>>

\* C2: the weekday groups partition the rows: their row counts add up to the
\* row count of the series and their missing counts to its missing count
C2_GroupsPartitionRows ==
    Grouped =>
        LET keys == DOMAIN grouped
        IN  /\ SetSum([k \in keys |-> Len(grouped[k])], keys) = Len(stocks)
            /\ SetSum([k \in keys |-> Cardinality(MissingAt(grouped[k]))], keys)
                 = Cardinality(MissingAt(stocks))

C2_Witness ==
    /\ Grouped
    /\ Len(stocks) = 3
    /\ Cardinality(DOMAIN grouped) = 2
    /\ 6 \in DOMAIN grouped
    /\ Cardinality(MissingAt(stocks)) = 2

\* C3: forward-filling the forward-filled series changes nothing
C3_FfillIdempotent == FilledShown => Fillna(filled) = filled

C3_Witness ==
    /\ FilledShown
    /\ Cardinality(MissingAt(stocks)) >= 2
    /\ MissingAt(filled) = {}

\* C4: forward fill keeps every present price, and keeps every position of
\* the leading missing run missing
C4_KeepsPresentAndLeadingRun ==
    FilledShown =>
        /\ Len(filled) = Len(stocks)
        /\ \A i \in PresentAt(stocks) : filled[i].Price = stocks[i].Price
        /\ \A i \in 1..Len(stocks) :
              (\A j \in 1..i : stocks[j].Price = NaN) => filled[i].Price = NaN

C4_Witness ==
    /\ FilledShown
    /\ Len(stocks) = 3
    /\ MissingAt(stocks) = {1, 3}
    /\ MissingAt(filled) = {1}

\* C6: a missing price with a present price before it is replaced by the
\* nearest preceding present price
C6_NearestPrecedingValue ==
    FilledShown =>
        \A i \in MissingAt(stocks) :
            LET before == {j \in PresentAt(stocks) : j < i}
            IN  before # {} =>
                    LET j == CHOOSE x \in before : \A y \in before : y <= x
                    IN  filled[i].Price = stocks[j].Price

C6_Witness ==
    /\ FilledShown
    /\ PricesOf(stocks) = <<Val(2), Val(1), NaN>>
    /\ PricesOf(filled) = <<Val(2), Val(1), Val(1)>>

\* the rows whose date falls on weekday w; 1970-01-05 (day 4) is a Monday
RowsOn(w) == {i \in 1..Len(stocks) : \E q \in 0..stocks[i].Date : stocks[i].Date + 3 = 7 * q + w}

\* C7: a weekday (Monday = 0 .. Sunday = 6) with rows is reported with the
\* rate (missing rows of the bucket) / (rows of the bucket); a weekday
\* without rows is not reported
C7_WeekdayRate ==
    Grouped =>
        /\ DOMAIN byWeekday \subseteq 0..6
        /\ \A w \in 0..6 :
              IF RowsOn(w) # {}
              THEN /\ w \in DOMAIN byWeekday
                   /\ RateIs(byWeekday[w].Price,
                             Cardinality(RowsOn(w) \cap MissingAt(stocks)),
                             Cardinality(RowsOn(w)))
              ELSE w \notin DOMAIN byWeekday

C7_Witness ==
    /\ Grouped
    /\ DOMAIN byWeekday = {0, 6}
    /\ byWeekday[0].Price = <<1, 2>>
    /\ byWeekday[6].Price = <<0, 1>>

\* C8: no step of the script changes the loaded series
C8_StocksNeverMutated == [][stocks' = stocks]_vars

C8_Witness ==
    /\ pc = "done"
    /\ filled # stocks
    /\ DOMAIN byWeekday # {}
    /\ Len(plotted) = Len(stocks)

\* C9 as stated: the forward-filled series has no missing price
C9_FullyFilled == FilledShown => MissingAt(filled) = {}

\* C9 amended: the forward-filled series has no missing price at any position
\* with a present price at or before it; it has no missing price at all
\* exactly when the series is empty or its first price is present
C9_FilledFromFirstValid ==
    FilledShown =>
        /\ \A i \in 1..Len(filled) :
              (\E j \in PresentAt(stocks) : j <= i) => filled[i].Price # NaN
        /\ MissingAt(filled) = {} <=> (Len(stocks) = 0 \/ stocks[1].Price # NaN)

C9_Witness ==
    /\ FilledShown
    /\ MissingAt(stocks) = {2, 3}
    /\ MissingAt(filled) = {}

\* the window of row k (1-based): ten rows before it, itself, nine after it
Half == Window \div 2
WindowOf(k) == (k - Half)..(k + Window - Half - 1)
NonEdge(k) == k - Half >= 1 /\ k + Window - Half - 1 <= Len(plotted)
WindowFull(k) == \A j \in WindowOf(k) \cap (1..Len(plotted)) : plotted[j].Price # NaN
WindowSum(k) ==
    LET S == WindowOf(k) \cap PresentAt(plotted)
    IN  SetSum([j \in S |-> plotted[j].Price[1]], S)
RollAt(k) == plotted[k].rolling_mean_center

\* C5 as stated: at every non-edge position the rolling mean is the mean of
\* the 20 forward-filled prices of its window; edge positions have no value
C5_MeanAtEveryNonEdge ==
    Plotted =>
        \A k \in 1..Len(plotted) :
            IF NonEdge(k)
            THEN RateIs(RollAt(k), WindowSum(k), Window)
            ELSE RollAt(k) = NaN

\* C5 amended: at every non-edge position whose window holds no missing
\* price the rolling mean is the mean of the 20 forward-filled prices of its
\* window; the first 10 and the last 9 positions have no value
C5_MeanAtFullNonEdge ==
    Plotted =>
        \A k \in 1..Len(plotted) :
            /\ (NonEdge(k) /\ WindowFull(k)) => RateIs(RollAt(k), WindowSum(k), Window)
            /\ ~NonEdge(k) => RollAt(k) = NaN

C5_Witness ==
    /\ Plotted
    /\ Len(plotted) = Window + 2
    /\ plotted[1].Price = NaN
    /\ RollAt(Half + 1) = NaN
    /\ RollAt(Half + 2) # NaN
    /\ RollAt(Half + 2)[2] = Window

\* C10: in a series without missing price after the fill, row i (0-based) has
\* a rolling mean exactly when 10 <= i <= n - 10, and it is the mean of rows
\* i-10 .. i+9; so with n >= 20 exactly the first 10 and the last 9 rows have
\* none and with n < 20 no row has one. A window holding a missing price has
\* no value.
C10_EvenWindowConvention ==
    Plotted =>
        LET n == Len(plotted)
            none == {k \in 1..n : RollAt(k) = NaN}
        IN  /\ MissingAt(plotted) = {} =>
                /\ \A k \in 1..n :
                      /\ RollAt(k) # NaN <=> (10 <= k - 1 /\ k - 1 <= n - 10)
                      /\ RollAt(k) # NaN =>
                            RateIs(RollAt(k),
                                   SetSum([j \in (k - 10)..(k + 9) |-> plotted[j].Price[1]],
                                          (k - 10)..(k + 9)),
                                   20)
                /\ n >= 20 => none = (1..10) \cup ((n - 8)..n)
                /\ n < 20 => none = 1..n
            /\ \A k \in 1..n : ~WindowFull(k) => RollAt(k) = NaN

C10_Witness ==
    /\ Plotted
    /\ Len(plotted) = Window + 2
    /\ MissingAt(stocks) # {}
    /\ MissingAt(plotted) = {}
    /\ RollAt(10) = NaN
    /\ RollAt(11) # NaN
    /\ RollAt(11)[2] = 20
    /\ RollAt(13) # NaN
    /\ RollAt(14) = NaN

====
